---- MODULE Spec2Model ----
(***************************************************************************)
(* dynamic-text-resizer: a text widget that re-selects the largest font    *)
(* size at which its word-wrapped text fits the visible area.              *)
(*                                                                         *)
(*   src/dynamic-text-resizer.py       tkinter front-end (DynamicFontApp)  *)
(*   src/dynamic-text-resizer-pyqt.py  PyQt front-end (AnimatedTextEdit)   *)
(*                                                                         *)
(* A text or a line is a sequence of one-character strings; the empty      *)
(* string "" of the source is the empty sequence.                          *)
(***************************************************************************)
EXTENDS Integers, Sequences, FiniteSets, TLC

VARIABLES
    app,                \* the front-end that runs: "tk" or "qt"
    metrics,            \* the font metrics provider of the session
    text,               \* content of the text widget
    win_width,          \* winfo_width() / viewport().width()
    win_height,         \* winfo_height() / viewport().height()
    mid_size,           \* size of the font handed to the last wrap call (0: none yet)
    wrapped_lines,      \* lines returned by the last wrap call
    \* tkinter, DynamicFontApp
    current_font_size,  \* self.current_font_size
    adjusting,          \* self.adjusting
    edit_modified,      \* the text widget's modified flag
    after_timers,       \* pending root.after callbacks: ms left of each, in firing order
    fit_stack,          \* callers of the adjust_font_size calls that are past line 133
    \* PyQt, AnimatedTextEdit
    _font_size,         \* self._font_size
    animation,          \* self.animation: state, startValue, endValue, ms left
    resize_timer,       \* self._resize_timer: <<>> when inactive, else <<ms left>>
    \* what the last call of adjust_font_size did
    last_fit,
    \* bookkeeping of event bursts
    events,             \* content-change and resize events so far
    quiet,              \* ms since the last content-change or resize event, up to Interval
    burst,              \* events of the current burst, up to CountCap
    calls               \* calls of adjust_font_size since the burst began, up to CountCap

env_vars == <<app, metrics, text, win_width, win_height>>
wrap_vars == <<mid_size, wrapped_lines>>
tk_vars == <<current_font_size, adjusting, edit_modified, after_timers, fit_stack>>
qt_vars == <<_font_size, animation, resize_timer>>
burst_vars == <<events, quiet, burst, calls>>
vars == <<env_vars, wrap_vars, tk_vars, qt_vars, last_fit, burst_vars>>

----------------------------------------------------------------------------
(* Bounds of the model *)

\* longest text handed to a stand-alone wrap call
MaxWrapLen == 5
\* longest text handed to a stand-alone fit
MaxFitLen == 3
\* longest text typed into the running application
MaxLen == 2
\* most root.after callbacks pending at once
MaxTimers == 2
\* the burst counters stop counting here
CountCap == 2
\* most content-change and resize events of one run
MaxEvents == 3

----------------------------------------------------------------------------
(* Constants of the program *)

MinSize == 8
MaxSize == 200
DefaultSize == 72
TkPadding == 40
QtPadding == 20
Interval == 100
Duration == 200

----------------------------------------------------------------------------
(* Texts *)

Chars == {"a", " ", "\n"}

RECURSIVE TextsUpTo(_)
TextsUpTo(n) ==
    IF n = 0 THEN {<<>>}
    ELSE LET shorter == TextsUpTo(n - 1)
         IN  shorter \cup {Append(t, c) : t \in {u \in shorter : Len(u) = n - 1}, c \in Chars}

Max(a, b) == IF a >= b THEN a ELSE b

\* str.split('\n'): the pieces between line breaks, empty pieces kept
RECURSIVE split_newline(_, _, _, _)
split_newline(t, i, piece, pieces) ==
    IF i > Len(t) THEN Append(pieces, piece)
    ELSE IF t[i] = "\n" THEN split_newline(t, i + 1, <<>>, Append(pieces, piece))
    ELSE split_newline(t, i + 1, Append(piece, t[i]), pieces)

\* str.split(): the maximal runs of non-whitespace characters
RECURSIVE split_whitespace(_, _, _, _)
split_whitespace(t, i, word, words) ==
    IF i > Len(t) THEN (IF word = <<>> THEN words ELSE Append(words, word))
    ELSE IF t[i] \in {" ", "\n"}
         THEN split_whitespace(t, i + 1, <<>>, IF word = <<>> THEN words ELSE Append(words, word))
    ELSE split_whitespace(t, i + 1, Append(word, t[i]), words)

paragraphs_of(t) == split_newline(t, 1, <<>>, <<>>)
words_of(paragraph) == split_whitespace(paragraph, 1, <<>>, <<>>)

----------------------------------------------------------------------------
(* Metrics providers: tkfont.Font.measure / metrics("linespace") and       *)
(* QFontMetrics.width / lineSpacing.  "scalable" grows with the size;      *)
(* "bitmap" has no strikes for the sizes 57..103 and falls back to a small *)
(* strike there, so its line height is not monotone in the size.           *)

Providers == {"scalable", "bitmap"}

Font(m, size) == [metrics |-> m, size |-> size]

NominalSize(font) ==
    IF font.metrics = "bitmap" /\ font.size \in 57..103 THEN 20 ELSE font.size

CharWidth(font, c) ==
    IF c = "a" THEN NominalSize(font) \div 2 ELSE NominalSize(font) \div 4

RECURSIVE measure(_, _)
measure(font, line) ==
    IF line = <<>> THEN 0
    ELSE CharWidth(font, Head(line)) + measure(font, Tail(line))

linespace(font) == NominalSize(font)

----------------------------------------------------------------------------
(* Wrap simulator, tkinter: DynamicFontApp.calculate_wrapped_lines *)

\* a plausible slip: the word is joined to the line without the space
Tk_test_line_no_space(current_line, word) == current_line \o word

\* test_line = current_line + " " + word if current_line else word
Tk_test_line(current_line, word) ==
    IF current_line # <<>> THEN current_line \o <<" ">> \o word ELSE word

\* a plausible slip: the word alone is measured, not the trial line
Tk_line_fits_word_only(font, test_line, word, width) == measure(font, word) <= width

\* a plausible slip: the comparison is the wrong way round
Tk_line_fits_reversed(font, test_line, word, width) == measure(font, test_line) >= width

\* font.measure(test_line) <= width
Tk_line_fits(font, test_line, word, width) == measure(font, test_line) <= width

\* the for-loop over the words of one paragraph; returns the lines it
\* appended and the line left in current_line
RECURSIVE Tk_word_loop(_, _, _, _, _, _)
Tk_word_loop(words, i, current_line, lines, font, width) ==
    IF i > Len(words) THEN [current_line |-> current_line, lines |-> lines]
    ELSE LET word == words[i]
             test_line == Tk_test_line(current_line, word)
         IN  IF Tk_line_fits(font, test_line, word, width)
             THEN Tk_word_loop(words, i + 1, test_line, lines, font, width)
             ELSE Tk_word_loop(words, i + 1, word, Append(lines, current_line), font, width)

\* a plausible slip: an empty paragraph is skipped without a line of its own
Tk_paragraph_lines_skip_empty(paragraph, font, width) ==
    IF paragraph = <<>> THEN <<>>
    ELSE LET words == words_of(paragraph)
         IN  IF words = <<>> THEN << <<>> >>
             ELSE LET r == Tk_word_loop(words, 1, <<>>, <<>>, font, width)
                  IN  Append(r.lines, r.current_line)

\* the lines one iteration of the paragraph loop appends to all_lines
Tk_paragraph_lines(paragraph, font, width) ==
    IF paragraph = <<>> THEN << <<>> >>
    ELSE LET words == words_of(paragraph)
         IN  IF words = <<>> THEN << <<>> >>
             ELSE LET r == Tk_word_loop(words, 1, <<>>, <<>>, font, width)
                  IN  IF r.current_line # <<>> \/ words = <<>>
                      THEN Append(r.lines, r.current_line)
                      ELSE r.lines

RECURSIVE Tk_all_lines(_, _, _, _)
Tk_all_lines(paragraphs, i, font, width) ==
    IF i > Len(paragraphs) THEN <<>>
    ELSE Tk_paragraph_lines(paragraphs[i], font, width)
             \o Tk_all_lines(paragraphs, i + 1, font, width)

Tk_calculate_wrapped_lines(t, font, width) ==
    IF t = <<>> THEN << <<>> >>
    ELSE LET all_lines == Tk_all_lines(paragraphs_of(t), 1, font, width)
         IN  IF all_lines = <<>> THEN << <<>> >> ELSE all_lines

----------------------------------------------------------------------------
(* Wrap simulator, PyQt: AnimatedTextEdit.calculate_wrapped_lines *)

Qt_test_line(current_line, word) ==
    IF current_line # <<>> THEN current_line \o <<" ">> \o word ELSE word

RECURSIVE Qt_word_loop(_, _, _, _, _, _)
Qt_word_loop(words, i, current_line, lines, font, width) ==
    IF i > Len(words) THEN [current_line |-> current_line, lines |-> lines]
    ELSE LET word == words[i]
             test_line == Qt_test_line(current_line, word)
         IN  IF measure(font, test_line) <= width
             THEN Qt_word_loop(words, i + 1, test_line, lines, font, width)
             ELSE Qt_word_loop(words, i + 1, word, Append(lines, current_line), font, width)

Qt_paragraph_lines(para, font, width) ==
    LET words == words_of(para)
    IN  IF words = <<>> THEN << <<>> >>
        ELSE LET r == Qt_word_loop(words, 1, <<>>, <<>>, font, width)
             IN  Append(r.lines, r.current_line)

RECURSIVE Qt_all_lines(_, _, _, _)
Qt_all_lines(paragraphs, i, font, width) ==
    IF i > Len(paragraphs) THEN <<>>
    ELSE Qt_paragraph_lines(paragraphs[i], font, width)
             \o Qt_all_lines(paragraphs, i + 1, font, width)

Qt_calculate_wrapped_lines(t, font, width) ==
    LET lines == Qt_all_lines(paragraphs_of(t), 1, font, width)
    IN  IF lines # <<>> THEN lines ELSE << <<>> >>

----------------------------------------------------------------------------
(* The viewport the front-end hands to the wrap and the fit *)

\* widget sizes; less the padding they give degenerate, small and large viewports
WidgetSizes == {21, 45, 140, 440}

Tk_width == win_width - TkPadding
Tk_height == win_height - TkPadding
Qt_width == win_width - QtPadding
Qt_height == win_height - QtPadding

avail_width == IF app = "tk" THEN Tk_width ELSE Qt_width
avail_height == IF app = "tk" THEN Tk_height ELSE Qt_height

paragraph_lines(paragraph, font, width) ==
    IF app = "tk" THEN Tk_paragraph_lines(paragraph, font, width)
    ELSE Qt_paragraph_lines(paragraph, font, width)

calculate_wrapped_lines(t, font, width) ==
    IF app = "tk" THEN Tk_calculate_wrapped_lines(t, font, width)
    ELSE Qt_calculate_wrapped_lines(t, font, width)

----------------------------------------------------------------------------
(* Fit solver, tkinter: the search of DynamicFontApp.adjust_font_size *)

Min(a, b) == IF a <= b THEN a ELSE b

Tk_total_height(t, font, width) ==
    Len(Tk_calculate_wrapped_lines(t, font, width)) * linespace(font)

\* a plausible slip: a text that fills the height exactly is taken not to fit
Tk_fits_strict(total_height, height) == total_height < height

\* total_height <= height
Tk_fits(total_height, height) == total_height <= height

\* a plausible slip: the probe is taken a quarter of the way up, not at the middle
RECURSIVE Tk_search_quarter(_, _, _, _, _, _, _, _)
Tk_search_quarter(min_size, max_size, optimal_size, iterations, t, m, width, height) ==
    IF ~(min_size <= max_size)
    THEN [optimal_size |-> optimal_size, iterations |-> iterations]
    ELSE LET mid == (3 * min_size + max_size) \div 4
             total_height == Tk_total_height(t, Font(m, mid), width)
         IN  IF Tk_fits(total_height, height)
             THEN Tk_search_quarter(mid + 1, max_size, mid, iterations + 1, t, m, width, height)
             ELSE Tk_search_quarter(min_size, mid - 1, optimal_size, iterations + 1, t, m, width, height)

\* the while-loop; iterations counts its passes
RECURSIVE Tk_search(_, _, _, _, _, _, _, _)
Tk_search(min_size, max_size, optimal_size, iterations, t, m, width, height) ==
    IF ~(min_size <= max_size)
    THEN [optimal_size |-> optimal_size, iterations |-> iterations]
    ELSE LET mid == (min_size + max_size) \div 2
             test_font == Font(m, mid)
             total_height == Tk_total_height(t, test_font, width)
         IN  IF Tk_fits(total_height, height)
             THEN Tk_search(mid + 1, max_size, mid, iterations + 1, t, m, width, height)
             ELSE Tk_search(min_size, mid - 1, optimal_size, iterations + 1, t, m, width, height)

\* a plausible slip: the last candidate that fitted is stored as it is
Tk_safety_margin_none(optimal_size) == optimal_size

\* a plausible slip: the margin is added, not taken off
Tk_safety_margin_added(optimal_size) == Max(MinSize, optimal_size + 2)

\* a plausible slip: the margin is taken without the clamp
Tk_safety_margin_unclamped(optimal_size) == optimal_size - 2

\* max(8, optimal_size - 2)
Tk_safety_margin(optimal_size) == Max(MinSize, optimal_size - 2)

\* a plausible slip: the viewport is not tested before the search
Tk_fit_unguarded(t, m, width, height) ==
    IF t = <<>>
    THEN [kind |-> "default", optimal_size |-> 0, iterations |-> 0, target |-> DefaultSize]
    ELSE LET r == Tk_search(MinSize, MaxSize, MinSize, 0, t, m, width, height)
         IN  [kind |-> "searched", optimal_size |-> r.optimal_size,
              iterations |-> r.iterations, target |-> Tk_safety_margin(r.optimal_size)]

\* a plausible slip: the search starts from the size on display, not from min_size
Tk_fit_from_current(t, m, width, height) ==
    IF t = <<>>
    THEN [kind |-> "default", optimal_size |-> 0, iterations |-> 0, target |-> DefaultSize]
    ELSE IF width <= 1 \/ height <= 1
    THEN [kind |-> "deferred", optimal_size |-> 0, iterations |-> 0, target |-> 0]
    ELSE LET r == Tk_search(MinSize, MaxSize, current_font_size, 0, t, m, width, height)
         IN  [kind |-> "searched", optimal_size |-> r.optimal_size,
              iterations |-> r.iterations, target |-> Tk_safety_margin(r.optimal_size)]

\* what the body of adjust_font_size (after the latch) decides for a text and a viewport
Tk_fit(t, m, width, height) ==
    IF t = <<>>
    THEN [kind |-> "default", optimal_size |-> 0, iterations |-> 0, target |-> DefaultSize]
    ELSE IF width <= 1 \/ height <= 1
    THEN [kind |-> "deferred", optimal_size |-> 0, iterations |-> 0, target |-> 0]
    ELSE LET r == Tk_search(MinSize, MaxSize, MinSize, 0, t, m, width, height)
         IN  [kind |-> "searched", optimal_size |-> r.optimal_size,
              iterations |-> r.iterations, target |-> Tk_safety_margin(r.optimal_size)]

----------------------------------------------------------------------------
(* Fit solver, PyQt: the search of AnimatedTextEdit.adjust_font_size *)

Qt_total_height(t, font, width) ==
    Len(Qt_calculate_wrapped_lines(t, font, width)) * linespace(font)

Qt_fits(total_height, height) == total_height <= height

RECURSIVE Qt_search(_, _, _, _, _, _, _, _)
Qt_search(min_size, max_size, best_size, iterations, t, m, width, height) ==
    IF ~(min_size <= max_size)
    THEN [optimal_size |-> best_size, iterations |-> iterations]
    ELSE LET mid == (min_size + max_size) \div 2
             font == Font(m, mid)
             total_height == Qt_total_height(t, font, width)
         IN  IF Qt_fits(total_height, height)
             THEN Qt_search(mid + 1, max_size, mid, iterations + 1, t, m, width, height)
             ELSE Qt_search(min_size, mid - 1, best_size, iterations + 1, t, m, width, height)

\* a plausible slip: the best size is applied without the margin
Qt_target_size_no_margin(best_size) == Max(MinSize, best_size)

\* max(8, best_size - 2)
Qt_target_size(best_size) == Max(MinSize, best_size - 2)

Qt_fit(t, m, width, height) ==
    IF t = <<>>
    THEN [kind |-> "default", optimal_size |-> 0, iterations |-> 0, target |-> DefaultSize]
    ELSE IF width <= 1 \/ height <= 1
    THEN [kind |-> "deferred", optimal_size |-> 0, iterations |-> 0, target |-> 0]
    ELSE LET r == Qt_search(MinSize, MaxSize, MinSize, 0, t, m, width, height)
         IN  [kind |-> "searched", optimal_size |-> r.optimal_size,
              iterations |-> r.iterations, target |-> Qt_target_size(r.optimal_size)]

----------------------------------------------------------------------------
(* State of both front-ends after construction *)

NoFit == [kind |-> "none", optimal_size |-> 0, iterations |-> 0, target |-> 0]

AtRest ==
    /\ current_font_size = DefaultSize
    /\ adjusting = FALSE
    /\ edit_modified = FALSE
    /\ after_timers = <<>>
    /\ fit_stack = <<>>
    /\ _font_size = DefaultSize
    /\ animation = [state |-> "Stopped", startValue |-> DefaultSize,
                    endValue |-> DefaultSize, left |-> 0]
    /\ resize_timer = <<>>
    /\ last_fit = NoFit
    /\ events = 0
    /\ quiet = Interval
    /\ burst = 0
    /\ calls = 0

----------------------------------------------------------------------------
(* SpecWrap: stand-alone calls of calculate_wrapped_lines.  Both callers   *)
(* return before the search when width <= 1, so wrap is only ever handed a *)
(* width > 1.                                                              *)

\* sizes the search can probe: its first probe, the two ends of the range and a size between
WrapSizes == {8, 20, 104, 200}

InitWrap ==
    /\ app \in {"tk", "qt"}
    /\ metrics \in Providers
    /\ text \in TextsUpTo(MaxWrapLen)
    /\ win_width \in {w \in WidgetSizes : w - TkPadding > 1}
    /\ win_height = 440
    /\ mid_size = 0
    /\ wrapped_lines = <<>>
    /\ AtRest

CallWrap(size) ==
    /\ mid_size' = size
    /\ wrapped_lines' = calculate_wrapped_lines(text, Font(metrics, size), avail_width)
    /\ UNCHANGED <<env_vars, tk_vars, qt_vars, last_fit, burst_vars>>

NextWrap == \E size \in WrapSizes : CallWrap(size)

SpecWrap == InitWrap /\ [][NextWrap]_vars

\* the font and the width of the last wrap call
wrap_font == Font(metrics, mid_size)
wrap_called == mid_size # 0

NoSpace(line) == \A k \in 1..Len(line) : line[k] # " "
OneWord(line) == line # <<>> /\ NoSpace(line)
Wordless(paragraph) == \A k \in 1..Len(paragraph) : paragraph[k] = " "
NewlineCount(t) == Cardinality({k \in 1..Len(t) : t[k] = "\n"})

RECURSIVE Flatten(_, _)
Flatten(groups, i) ==
    IF i > Len(groups) THEN <<>> ELSE groups[i] \o Flatten(groups, i + 1)

\* the lines each paragraph of the text contributes to the last wrap call
line_groups ==
    LET paragraphs == paragraphs_of(text)
    IN  [i \in 1..Len(paragraphs) |-> paragraph_lines(paragraphs[i], wrap_font, avail_width)]

(* C3: wrap never rejects the first word of a paragraph: a paragraph with  *)
(* at least one word contributes no empty line, and a paragraph of a       *)
(* single word contributes exactly one line, that word, even when the word *)
(* is wider than the width.                                                *)
C3_FirstWordNeverRejected ==
    wrap_called =>
        /\ wrapped_lines = Flatten(line_groups, 1)
        /\ \A i \in DOMAIN line_groups :
              LET words == words_of(paragraphs_of(text)[i])
              IN  words # <<>> =>
                    /\ \A j \in 1..Len(line_groups[i]) : line_groups[i][j] # <<>>
                    /\ Len(words) = 1 => line_groups[i] = <<words[1]>>

(* C4: for a non-empty text wrap returns at least one line, and every line *)
(* either measures at most the width or is a single word (no spaces).      *)
C4_LinesFitOrSingleWord ==
    (wrap_called /\ text # <<>>) =>
        /\ Len(wrapped_lines) >= 1
        /\ \A j \in 1..Len(wrapped_lines) :
              \/ measure(wrap_font, wrapped_lines[j]) <= avail_width
              \/ OneWord(wrapped_lines[j])

\* a wrap whose output holds a word that overflows the width beside lines that fit
C4_Witness ==
    /\ wrap_called
    /\ Len(wrapped_lines) >= 3
    /\ \E j \in 1..Len(wrapped_lines) : measure(wrap_font, wrapped_lines[j]) > avail_width
    /\ \E j \in 1..Len(wrapped_lines) :
          wrapped_lines[j] # <<>> /\ measure(wrap_font, wrapped_lines[j]) <= avail_width

(* C5: explicit line breaks survive wrap at every width: the output is the *)
(* in-order concatenation of one group of lines per paragraph (one more    *)
(* paragraph than line breaks), an empty or whitespace-only paragraph      *)
(* contributes exactly one empty line, and "a\n\na" gives three groups     *)
(* whose middle one is a single empty line.                                *)
C5_LineBreaksPreserved ==
    wrap_called =>
        /\ Len(line_groups) = NewlineCount(text) + 1
        /\ wrapped_lines = Flatten(line_groups, 1)
        /\ \A i \in DOMAIN line_groups :
              /\ Len(line_groups[i]) >= 1
              /\ Wordless(paragraphs_of(text)[i]) => line_groups[i] = << <<>> >>
        /\ text = <<"a", "\n", "\n", "a">> =>
              /\ Len(line_groups) = 3
              /\ wrapped_lines[Len(line_groups[1]) + 1] = <<>>
              /\ Len(wrapped_lines) = Len(line_groups[1]) + 1 + Len(line_groups[3])

\* "a\n\na" wrapped at a width the words fit: the empty line sits between them
C5_Witness ==
    /\ wrap_called
    /\ text = <<"a", "\n", "\n", "a">>
    /\ wrapped_lines = << <<"a">>, <<>>, <<"a">> >>

----------------------------------------------------------------------------
(* The running application.  Both toolkits run one handler at a time from  *)
(* a single event loop; time passes between handlers, in steps of Tick,    *)
(* and a timer that is due is dispatched before any later event.  A        *)
(* running animation shows one frame per step of time.                     *)

Tick == Interval \div 2

\* sizes of the widget while the application runs
Widths == {21, 140}
Heights == {45, 294}

Front(t) == SubSeq(t, 1, Len(t) - 1)

\* the keys pressed while the application runs, besides BackSpace
Keys == {"a", "\n"}

\* the texts one key press makes of t
Edits(t) ==
    {Append(t, c) : c \in IF Len(t) < MaxLen THEN Keys ELSE {}}
        \cup (IF t # <<>> THEN {Front(t)} ELSE {})

Count(n) == Min(n + 1, CountCap)

\* a content-change or resize event arrives: it opens a burst when the last
\* event is at least Interval back, and joins the current burst otherwise
burst_after_event == IF quiet >= Interval THEN 1 ELSE Count(burst)
calls_after_event == IF quiet >= Interval THEN 0 ELSE calls

Elapse(left) == Max(0, left - Tick)

Idle == fit_stack = <<>>

TimerDue ==
    \/ after_timers # <<>> /\ Head(after_timers) = 0
    \/ resize_timer # <<>> /\ Head(resize_timer) = 0

Init ==
    /\ app \in {"tk", "qt"}
    /\ metrics \in Providers
    /\ text = <<>>
    /\ win_width \in Widths
    /\ win_height \in Heights
    /\ mid_size = 0
    /\ wrapped_lines = <<>>
    /\ AtRest

----------------------------------------------------------------------------
(* tkinter handlers *)

\* a plausible slip: the latch is never consulted
Tk_latched_never(flag) == FALSE

\* line 130: if self.adjusting: return
Tk_latched(flag) == flag

Blocked == [kind |-> "blocked", optimal_size |-> 0, iterations |-> 0, target |-> 0]

\* adjust_font_size up to line 133: the latch is tested and taken.  n is the
\* number of calls of the burst before this one.
Tk_adjust_font_size(caller, n) ==
    /\ calls' = Count(n)
    /\ IF Tk_latched(adjusting)
       THEN /\ last_fit' = Blocked
            /\ UNCHANGED <<adjusting, fit_stack>>
       ELSE /\ adjusting' = TRUE
            /\ fit_stack' = Append(fit_stack, caller)
            /\ UNCHANGED last_fit

\* a plausible slip: the deferred fit returns without registering its retry
Tk_deferred_retry_none(timers) == timers

\* line 151: self.root.after(100, self.adjust_font_size)
Tk_deferred_retry(timers) == Append(timers, Interval)

\* a plausible slip: the deferred path returns without releasing the latch
Tk_release_not_when_deferred(kind) == kind = "deferred"

\* self.adjusting = False before each return of the body (lines 143, 152, 190)
Tk_release(kind) == FALSE

\* adjust_font_size from line 135 to its return, and the rest of on_text_change
\* when that is the caller
Tk_adjust_return ==
    /\ app = "tk"
    /\ fit_stack # <<>>
    /\ LET caller == fit_stack[Len(fit_stack)]
           fit == Tk_fit(text, metrics, Tk_width, Tk_height)
       IN  /\ last_fit' = fit
           /\ current_font_size' =
                 IF fit.kind = "deferred" THEN current_font_size ELSE fit.target
           /\ after_timers' =
                 IF fit.kind = "deferred" THEN Tk_deferred_retry(after_timers)
                 ELSE after_timers
           /\ adjusting' = Tk_release(fit.kind)
           /\ fit_stack' = Front(fit_stack)
           /\ edit_modified' = IF caller = "on_text_change" THEN FALSE ELSE edit_modified
    /\ UNCHANGED <<env_vars, wrap_vars, qt_vars, burst_vars>>

\* a key press edits the text; when that sets the modified flag Tk raises
\* <<Modified>>, which runs on_text_change
Tk_on_text_change(new_text) ==
    /\ app = "tk"
    /\ Len(after_timers) < MaxTimers
    /\ text' = new_text
    /\ IF edit_modified
       THEN UNCHANGED <<edit_modified, adjusting, fit_stack, last_fit, burst_vars>>
       ELSE /\ edit_modified' = TRUE
            /\ events' = events + 1
            /\ quiet' = 0
            /\ burst' = burst_after_event
            /\ IF ~adjusting
               THEN Tk_adjust_font_size("on_text_change", calls_after_event)
               ELSE /\ calls' = calls_after_event
                    /\ UNCHANGED <<adjusting, fit_stack, last_fit>>
    /\ UNCHANGED <<app, metrics, win_width, win_height, wrap_vars,
                   current_font_size, after_timers, qt_vars>>

\* a <Configure> event of the root window
Tk_on_window_resize(w, h) ==
    /\ app = "tk"
    /\ Len(after_timers) < MaxTimers
    /\ win_width' = w
    /\ win_height' = h
    /\ after_timers' = Append(after_timers, Interval)
    /\ events' = events + 1
    /\ quiet' = 0
    /\ burst' = burst_after_event
    /\ calls' = calls_after_event
    /\ UNCHANGED <<app, metrics, text, wrap_vars, current_font_size, adjusting,
                   edit_modified, fit_stack, qt_vars, last_fit>>

\* a root.after(100, self.adjust_font_size) callback comes due
Tk_after_callback ==
    /\ app = "tk"
    /\ after_timers # <<>>
    /\ Head(after_timers) = 0
    /\ after_timers' = Tail(after_timers)
    /\ Tk_adjust_font_size("after", calls)
    /\ UNCHANGED <<env_vars, wrap_vars, current_font_size, edit_modified, qt_vars,
                   events, quiet, burst>>

----------------------------------------------------------------------------
(* PyQt handlers *)

\* a plausible slip: a timer that already runs is left to run
Qt_timer_start_if_inactive(timer) == IF timer # <<>> THEN timer ELSE <<Interval>>

\* QTimer.start() of the single-shot timer: a running timer starts over
Qt_timer_start(timer) == <<Interval>>

\* schedule_adjust_font_size, reached from textChanged and from resizeEvent
Qt_schedule_adjust_font_size ==
    /\ resize_timer' = Qt_timer_start(resize_timer)
    /\ events' = events + 1
    /\ quiet' = 0
    /\ burst' = burst_after_event
    /\ calls' = calls_after_event

Qt_textChanged(new_text) ==
    /\ app = "qt"
    /\ text' = new_text
    /\ Qt_schedule_adjust_font_size
    /\ UNCHANGED <<app, metrics, win_width, win_height, wrap_vars, tk_vars,
                   _font_size, animation, last_fit>>

Qt_resizeEvent(w, h) ==
    /\ app = "qt"
    /\ win_width' = w
    /\ win_height' = h
    /\ Qt_schedule_adjust_font_size
    /\ UNCHANGED <<app, metrics, text, wrap_vars, tk_vars,
                   _font_size, animation, last_fit>>

\* animate_font_size: stop, setStartValue, setEndValue, start
Qt_animate_font_size(to_size) ==
    [state |-> "Running", startValue |-> _font_size, endValue |-> to_size,
     left |-> Duration]

\* if target_size != self._font_size
Qt_needs_animation(target_size) == target_size # _font_size

\* the timer's timeout: adjust_font_size
Qt_adjust_font_size ==
    /\ app = "qt"
    /\ resize_timer # <<>>
    /\ Head(resize_timer) = 0
    /\ resize_timer' = Tail(resize_timer)
    /\ calls' = Count(calls)
    /\ LET fit == Qt_fit(text, metrics, Qt_width, Qt_height)
       IN  /\ last_fit' = fit
           /\ animation' =
                 IF fit.kind # "deferred" /\ Qt_needs_animation(fit.target)
                 THEN Qt_animate_font_size(fit.target)
                 ELSE animation
    /\ UNCHANGED <<env_vars, wrap_vars, tk_vars, _font_size, events, quiet, burst>>

\* QEasingCurve.InOutCubic at elapsed of Duration ms, as the fraction num / den
InOutCubic(elapsed) ==
    IF 2 * elapsed < Duration
    THEN [num |-> 4 * elapsed * elapsed * elapsed, den |-> Duration * Duration * Duration]
    ELSE [num |-> Duration * Duration * Duration
                    - 4 * (Duration - elapsed) * (Duration - elapsed) * (Duration - elapsed),
          den |-> Duration * Duration * Duration]

\* the int the animation hands to setFontSize after elapsed ms:
\* int(startValue + (endValue - startValue) * progress)
Qt_interpolate(anim, elapsed) ==
    LET p == InOutCubic(elapsed)
    IN  (anim.startValue * p.den + (anim.endValue - anim.startValue) * p.num) \div p.den

\* the animation's clock advances: a frame is shown, and at Duration the
\* animation sets the end value and stops
Qt_animation_after(left) ==
    IF animation.state = "Running"
    THEN [animation EXCEPT !.left = left,
                           !.state = IF left = 0 THEN "Stopped" ELSE "Running"]
    ELSE animation

\* setFontSize(size): size = int(size); self._font_size = size when it differs
Qt_setFontSize(left) ==
    IF animation.state = "Running"
    THEN (IF left = 0 THEN animation.endValue
          ELSE Qt_interpolate(animation, Duration - left))
    ELSE _font_size

----------------------------------------------------------------------------
(* Time *)

Pending ==
    \/ after_timers # <<>>
    \/ resize_timer # <<>>
    \/ animation.state = "Running"
    \/ quiet < Interval

TimePasses ==
    /\ Pending
    /\ after_timers' = [i \in DOMAIN after_timers |-> Elapse(after_timers[i])]
    /\ resize_timer' = [i \in DOMAIN resize_timer |-> Elapse(resize_timer[i])]
    /\ animation' = Qt_animation_after(Elapse(animation.left))
    /\ _font_size' = Qt_setFontSize(Elapse(animation.left))
    /\ quiet' = Min(Interval, quiet + Tick)
    /\ UNCHANGED <<env_vars, wrap_vars, current_font_size, adjusting, edit_modified,
                   fit_stack, last_fit, events, burst, calls>>

----------------------------------------------------------------------------
(* Spec: the event loop of either front-end *)

\* the event loop hands the next user event to its handler
Dispatch == ~TimerDue /\ events < MaxEvents

Next ==
    \/ Idle /\ Dispatch /\ \E t \in Edits(text) : Tk_on_text_change(t)
    \/ Idle /\ Dispatch /\ \E w \in Widths, h \in Heights : Tk_on_window_resize(w, h)
    \/ Idle /\ Tk_after_callback
    \/ Tk_adjust_return
    \/ Dispatch /\ \E t \in Edits(text) : Qt_textChanged(t)
    \/ Dispatch /\ \E w \in Widths, h \in Heights : Qt_resizeEvent(w, h)
    \/ Qt_adjust_font_size
    \/ Idle /\ ~TimerDue /\ TimePasses

Spec == Init /\ [][Next]_vars

(* SpecReentrant: the tkinter event loop entered again while a fit is past *)
(* its latch, as it would be if anything in the body ran the event loop    *)
(* (root.update(), as activate_window does).  This is the situation the    *)
(* adjusting flag exists for: events are dispatched whether or not a fit   *)
(* is active.                                                              *)

InitReentrant == Init /\ app = "tk"

NextReentrant ==
    \/ Dispatch /\ \E t \in Edits(text) : Tk_on_text_change(t)
    \/ Dispatch /\ \E w \in Widths, h \in Heights : Tk_on_window_resize(w, h)
    \/ Tk_after_callback
    \/ Tk_adjust_return
    \/ Idle /\ ~TimerDue /\ TimePasses

SpecReentrant == InitReentrant /\ [][NextReentrant]_vars

----------------------------------------------------------------------------
(* SpecFit: one fit computation on a text and a viewport drawn from        *)
(* bounded sets; the fit is the callback of a timer that has come due.     *)

InitFit ==
    /\ app \in {"tk", "qt"}
    /\ metrics \in Providers
    /\ text \in TextsUpTo(MaxFitLen)
    /\ win_width \in WidgetSizes
    /\ win_height \in WidgetSizes
    /\ mid_size = 0
    /\ wrapped_lines = <<>>
    /\ current_font_size = DefaultSize
    /\ adjusting = FALSE
    /\ edit_modified = FALSE
    /\ after_timers = IF app = "tk" THEN <<0>> ELSE <<>>
    /\ fit_stack = <<>>
    /\ _font_size = DefaultSize
    /\ animation = [state |-> "Stopped", startValue |-> DefaultSize,
                    endValue |-> DefaultSize, left |-> 0]
    /\ resize_timer = IF app = "qt" THEN <<0>> ELSE <<>>
    /\ last_fit = NoFit
    /\ events = 1
    /\ quiet = Interval
    /\ burst = 1
    /\ calls = 0

NextFit ==
    \/ Tk_after_callback
    \/ Tk_adjust_return
    \/ Qt_adjust_font_size

SpecFit == InitFit /\ [][NextFit]_vars

----------------------------------------------------------------------------
(* Properties of the fit *)

\* total wrapped height of the text at a size, in the viewport of the state
total_height(size) ==
    IF app = "tk" THEN Tk_total_height(text, Font(metrics, size), avail_width)
    ELSE Qt_total_height(text, Font(metrics, size), avail_width)

\* the total heights at the sizes MinSize..MaxSize, as a sequence
heights_by_size ==
    <<>> \o [i \in 1..(MaxSize - MinSize + 1) |-> total_height(MinSize + i - 1)]

Monotone(hs) == \A i \in 1..(Len(hs) - 1) : hs[i] <= hs[i + 1]

\* the largest size whose total height is at most the height, MinSize when there is none
LargestFitting(hs, height) ==
    LET fitting == {i \in 1..Len(hs) : hs[i] <= height}
    IN  IF fitting = {} THEN MinSize
        ELSE MinSize - 1 + CHOOSE i \in fitting : \A j \in fitting : j <= i

\* the size the display is at or is moving to
applied_size ==
    IF app = "tk" THEN current_font_size
    ELSE IF animation.state = "Running" THEN animation.endValue ELSE _font_size

(* C1: for a non-empty text, a viewport with width > 1 and height > 1 and  *)
(* a total wrapped height that is non-decreasing in the size, the search   *)
(* ends with best = the largest size in [8,200] whose total height is at   *)
(* most the available height (8 when none fits), and the size applied is   *)
(* max(8, best - 2).                                                       *)
C1_SearchFindsLargestFit ==
    last_fit.kind = "searched" =>
        LET hs == heights_by_size
        IN  Monotone(hs) =>
              /\ last_fit.optimal_size = LargestFitting(hs, avail_height)
              /\ last_fit.target = Max(8, last_fit.optimal_size - 2)
              /\ applied_size = last_fit.target

\* a search that ends strictly inside the range, on a text that wraps at the size found
C1_Witness ==
    /\ last_fit.kind = "searched"
    /\ last_fit.optimal_size \in (MinSize + 1)..(MaxSize - 1)
    /\ Monotone(heights_by_size)
    /\ Len(calculate_wrapped_lines(text, Font(metrics, last_fit.optimal_size), avail_width)) >= 2
    /\ applied_size = last_fit.optimal_size - 2

(* C2: after any sequence of content-change and resize events, with any    *)
(* text, viewport and metrics provider, the size a fit chooses is an       *)
(* integer in [8,200], and the stored font size (current_font_size, the    *)
(* animation's end value) is never outside [8,200].                        *)
C2_SizeInRange ==
    /\ current_font_size \in MinSize..MaxSize
    /\ animation.endValue \in MinSize..MaxSize
    /\ _font_size \in MinSize..MaxSize
    /\ last_fit.kind \in {"default", "searched"} => last_fit.target \in MinSize..MaxSize

\* a search under the provider whose heights are not monotone, ending at the floor
C2_Witness ==
    /\ events >= 2
    /\ metrics = "bitmap"
    /\ last_fit.kind = "searched"
    /\ last_fit.target = MinSize
    /\ applied_size = MinSize

\* a call of adjust_font_size gets past the latch and runs to its return
FitRuns == Tk_adjust_return \/ Qt_adjust_font_size

(* C6: when the text is empty a fit makes 72 the target font size,         *)
(* whatever the viewport (a degenerate one included) and whatever the      *)
(* current font size, and runs no search.                                  *)
C6_EmptyTextGivesDefault ==
    [][(FitRuns /\ text = <<>>) =>
          /\ last_fit'.kind = "default"
          /\ last_fit'.iterations = 0
          /\ applied_size' = 72]_vars

(* C7: PyQt, last write wins: once no fit is pending and the animation has *)
(* finished, the displayed size is the target of the most recent fit, also *)
(* when that fit ran while an animation to an older target was in flight.  *)
C7_LastWriteWins ==
    (/\ app = "qt"
     /\ resize_timer = <<>>
     /\ animation.state = "Stopped"
     /\ last_fit.kind \in {"default", "searched"})
        => _font_size = last_fit.target

(* C8: tkinter coalesces: a burst of <Configure> events of the root window *)
(* (or of <<Modified>> events) within one 100 ms window leads to a single  *)
(* call of adjust_font_size, not one per event.                            *)
C8_TkBurstCoalesced ==
    (app = "tk" /\ burst >= 2) => calls <= 1

(* C9: PyQt: every textChanged and resizeEvent restarts the single-shot    *)
(* timer, so at most one fit is pending, and a burst of events less than   *)
(* 100 ms apart gives exactly one call of adjust_font_size, after the last *)
(* event of the burst.                                                     *)
C9_QtBurstCoalesced ==
    app = "qt" =>
        /\ Len(resize_timer) <= 1
        /\ calls <= 1
        /\ calls = 1 => quiet >= Interval
        /\ (burst >= 1 /\ quiet >= Interval /\ resize_timer = <<>>) => calls = 1

\* a burst of two events that has had its one call
C9_Witness ==
    /\ app = "qt"
    /\ burst >= 2
    /\ calls = 1
    /\ resize_timer = <<>>

(* C10: tkinter: at most one fit computation is active at a time: under    *)
(* every interleaving of <<Modified>> events, <Configure> events and fired *)
(* after callbacks the body of adjust_font_size is not entered while       *)
(* adjusting is True, so no two fits interleave.                           *)
C10_OneActiveFit ==
    /\ Len(fit_stack) <= 1
    /\ fit_stack # <<>> => adjusting

\* a callback came due while a fit was active and was turned away at the latch
C10_Witness ==
    /\ fit_stack # <<>>
    /\ last_fit.kind = "blocked"
    /\ adjusting

----------------------------------------------------------------------------
(* Properties of the degenerate viewport *)

Degenerate == avail_width <= 1 \/ avail_height <= 1

(* C11: a fit on a non-empty text and a degenerate viewport (available     *)
(* width <= 1 or height <= 1) runs no search and leaves the font size as   *)
(* it is, in both front-ends; it is an ordinary return, not an error.      *)
C11_DegenerateViewportKeepsSize ==
    [][(FitRuns /\ text # <<>> /\ Degenerate) =>
          /\ last_fit'.kind = "deferred"
          /\ last_fit'.iterations = 0
          /\ current_font_size' = current_font_size
          /\ _font_size' = _font_size
          /\ animation' = animation]_vars

\* a deferred fit that left a size other than the initial one in place
C11_Witness ==
    /\ text # <<>>
    /\ Degenerate
    /\ last_fit.kind = "deferred"
    /\ applied_size # DefaultSize

----------------------------------------------------------------------------
(* Properties of the wrap across sizes *)

\* the provider measures every character, and so every string, no narrower at a larger size
WidthMonotone(m) ==
    \A c \in Chars : \A s \in MinSize..(MaxSize - 1) :
        CharWidth(Font(m, s), c) <= CharWidth(Font(m, s + 1), c)

\* the providers of the model that do so
MonotoneProviders == {m \in Providers : WidthMonotone(m)}

\* number of lines the wrap returns at a size, for the text and width of the state
line_count(size) == Len(calculate_wrapped_lines(text, Font(metrics, size), avail_width))

(* C12: for a fixed text and width, under a provider whose measured widths *)
(* are non-decreasing in the size, wrap at a larger size returns no fewer  *)
(* lines than at any smaller size.                                         *)
C12_LineCountMonotone ==
    (wrap_called /\ metrics \in MonotoneProviders) =>
        \A s2 \in MinSize..(mid_size - 1) : Len(wrapped_lines) >= line_count(s2)

\* a wrap into several lines of a text that takes fewer lines at a smaller size
C12_Witness ==
    /\ wrap_called
    /\ metrics \in MonotoneProviders
    /\ Len(wrapped_lines) >= 3
    /\ \E s2 \in MinSize..(mid_size - 1) : line_count(s2) = Len(wrapped_lines) - 1

----------------------------------------------------------------------------
(* Properties of the search *)

(* C13: the binary search of a fit ends, and over the range [8,200] it     *)
(* makes at most 8 passes of its loop (one wrap computation each), for     *)
(* every text, viewport and metrics provider.                              *)
C13_SearchBounded ==
    last_fit.kind = "searched" => last_fit.iterations \in 1..8

\* a search that took all 8 passes on a text of several lines
C13_Witness ==
    /\ last_fit.kind = "searched"
    /\ last_fit.iterations = 8
    /\ NewlineCount(text) >= 1

----------------------------------------------------------------------------
(* SpecRefit: fits repeated on a text and a viewport that stay as they     *)
(* are.  The first fit is the callback of a timer that has come due; later *)
(* ones follow events that change neither the text nor the viewport (a     *)
(* <Configure> of a window that is moved, a selection replaced by the same *)
(* text), so they run at whatever font size and animation state the        *)
(* earlier ones have left.                                                 *)

InitRefit ==
    /\ app \in {"tk", "qt"}
    /\ metrics \in Providers
    /\ text \in TextsUpTo(MaxLen)
    /\ win_width \in Widths
    /\ win_height \in Heights
    /\ mid_size = 0
    /\ wrapped_lines = <<>>
    /\ current_font_size = DefaultSize
    /\ adjusting = FALSE
    /\ edit_modified = FALSE
    /\ after_timers = IF app = "tk" THEN <<0>> ELSE <<>>
    /\ fit_stack = <<>>
    /\ _font_size = DefaultSize
    /\ animation = [state |-> "Stopped", startValue |-> DefaultSize,
                    endValue |-> DefaultSize, left |-> 0]
    /\ resize_timer = IF app = "qt" THEN <<0>> ELSE <<>>
    /\ last_fit = NoFit
    /\ events = 1
    /\ quiet = Interval
    /\ burst = 1
    /\ calls = 0

NextRefit ==
    \/ Idle /\ Dispatch /\ Tk_on_window_resize(win_width, win_height)
    \/ Idle /\ Tk_after_callback
    \/ Tk_adjust_return
    \/ Dispatch /\ Qt_textChanged(text)
    \/ Qt_adjust_font_size
    \/ Idle /\ ~TimerDue /\ TimePasses

SpecRefit == InitRefit /\ [][NextRefit]_vars

(* C14: repeated fits on an unchanged text and viewport give the identical *)
(* result: the target depends on the text, the viewport and the metrics    *)
(* only, not on the font size, the adjusting flag or the animation state   *)
(* at the time of the call, so a fit that follows an applied fit leaves    *)
(* the size the display is at or is moving to as it is.                    *)
C14_RepeatedFitSameTarget ==
    [][(FitRuns /\ last_fit.kind # "none") =>
          /\ last_fit' = last_fit
          /\ applied_size' = applied_size]_vars

\* a repeated fit that ran while the animation of the earlier one was in flight
C14_Witness ==
    /\ app = "qt"
    /\ events >= 2
    /\ resize_timer = <<>>
    /\ last_fit.kind = "searched"
    /\ animation.state = "Running"
    /\ animation.left = Duration
    /\ animation.startValue # DefaultSize
    /\ animation.endValue = last_fit.target

----------------------------------------------------------------------------
(* Properties of the two front-ends side by side *)

(* C15: the two front-ends implement the same wrap and the same fit: for   *)
(* every text, width, height and metrics provider the two                  *)
(* calculate_wrapped_lines return the same lines at every size, and the    *)
(* two searches, handed the same available width and height, compute the   *)
(* same target.                                                            *)
C15_FrontEndsAgree ==
    last_fit.kind # "none" =>
        /\ last_fit = Tk_fit(text, metrics, avail_width, avail_height)
        /\ last_fit = Qt_fit(text, metrics, avail_width, avail_height)
        /\ \A size \in MinSize..MaxSize :
              Tk_calculate_wrapped_lines(text, Font(metrics, size), avail_width)
                  = Qt_calculate_wrapped_lines(text, Font(metrics, size), avail_width)

\* a tkinter search on a text that wraps, whose result is also what the PyQt search gives
C15_Witness ==
    /\ app = "tk"
    /\ last_fit.kind = "searched"
    /\ last_fit.optimal_size > MinSize
    /\ Qt_fit(text, metrics, avail_width, avail_height).target = current_font_size
    /\ Len(Qt_calculate_wrapped_lines(text, Font(metrics, MaxSize), avail_width)) >= 3

----------------------------------------------------------------------------
(* SpecRetry: the tkinter front-end with a text in place and a fit due,    *)
(* left alone by the user.  The geometry manager may still resize the text *)
(* widget: its <Configure> reaches on_window_resize with event.widget not  *)
(* the root, and the handler does nothing.  The Tk event loop runs every   *)
(* callback that is due and time does not stop, hence the fairness.        *)

InitRetry ==
    /\ app = "tk"
    /\ metrics \in Providers
    /\ text \in TextsUpTo(MaxLen) \ {<<>>}
    /\ win_width \in Widths
    /\ win_height \in Heights
    /\ mid_size = 0
    /\ wrapped_lines = <<>>
    /\ current_font_size = DefaultSize
    /\ adjusting = FALSE
    /\ edit_modified = FALSE
    /\ after_timers = <<0>>
    /\ fit_stack = <<>>
    /\ _font_size = DefaultSize
    /\ animation = [state |-> "Stopped", startValue |-> DefaultSize,
                    endValue |-> DefaultSize, left |-> 0]
    /\ resize_timer = <<>>
    /\ last_fit = NoFit
    /\ events = 1
    /\ quiet = Interval
    /\ burst = 1
    /\ calls = 0

\* on_window_resize for a <Configure> of the text widget: line 125 is false
Tk_widget_configure(w, h) ==
    /\ app = "tk"
    /\ <<w, h>> # <<win_width, win_height>>
    /\ win_width' = w
    /\ win_height' = h
    /\ UNCHANGED <<app, metrics, text, wrap_vars, tk_vars, qt_vars, last_fit, burst_vars>>

NextRetry ==
    \/ Idle /\ Tk_after_callback
    \/ Tk_adjust_return
    \/ Idle /\ ~TimerDue /\ TimePasses
    \/ Idle /\ ~TimerDue /\ \E w \in Widths, h \in Heights : Tk_widget_configure(w, h)

\* a call of adjust_font_size that is past the latch runs on to its return:
\* the step of Tk_adjust_return, as it shows on fit_stack
Tk_call_returns == fit_stack # <<>> /\ fit_stack' = Front(fit_stack)

SpecRetry ==
    /\ InitRetry
    /\ [][NextRetry]_vars
    /\ WF_vars(Idle /\ Tk_after_callback)
    /\ WF_fit_stack(Tk_call_returns)
    /\ WF_vars(Idle /\ ~TimerDue /\ TimePasses)

(* C16: tkinter retries a deferred fit: each call of adjust_font_size on a *)
(* non-empty text with width <= 1 or height <= 1 registers exactly one     *)
(* further call 100 ms later, so when the viewport in the end becomes and  *)
(* stays valid a complete fit runs and applies a size, with no new user    *)
(* event.                                                                  *)
C16_DeferredFitRetried ==
    /\ [][(Tk_adjust_return /\ text # <<>> /\ Degenerate) =>
             after_timers' = Append(after_timers, Interval)]_vars
    /\ (<>[](~Degenerate)) =>
          <>(last_fit.kind = "searched" /\ current_font_size = last_fit.target)

\* a complete fit reached through a retry, with no event after the first
C16_Witness ==
    /\ app = "tk"
    /\ events = 1
    /\ calls >= 2
    /\ last_fit.kind = "searched"
    /\ current_font_size = last_fit.target
    /\ after_timers = <<>>

----------------------------------------------------------------------------
(* Properties of the tkinter fit as seen from outside *)

(* C17: tkinter shows no partial fit: current_font_size is not written     *)
(* while a fit is under way; it changes only in the step that ends a fit,  *)
(* and only to 72 (empty text) or to max(8, best - 2), where best is the   *)
(* size the search ended on, never to a candidate the search tried.        *)
C17_NoPartialFit ==
    [][/\ Len(fit_stack') >= Len(fit_stack) => current_font_size' = current_font_size
       /\ current_font_size' # current_font_size =>
             /\ Tk_adjust_return
             /\ last_fit'.kind \in {"default", "searched"}
             /\ last_fit'.kind = "default" => current_font_size' = 72
             /\ last_fit'.kind = "searched" =>
                   /\ current_font_size' = Max(8, last_fit'.optimal_size - 2)
                   /\ \/ last_fit'.optimal_size = MinSize
                      \/ Tk_fits(Tk_total_height(text, Font(metrics, last_fit'.optimal_size),
                                                 Tk_width), Tk_height)]_vars

\* a search has just replaced the initial size by its best size less the margin
C17_Witness ==
    /\ app = "tk"
    /\ Idle
    /\ events >= 2
    /\ last_fit.kind = "searched"
    /\ last_fit.optimal_size > MinSize + 2
    /\ current_font_size = last_fit.optimal_size - 2
    /\ current_font_size # DefaultSize

(* C18: the latch is always released: on every return path of the body of  *)
(* the tkinter adjust_font_size (empty text, degenerate viewport,         *)
(* completed search) adjusting is False at the return, so between events   *)
(* adjusting is False and no later trigger is turned away at the latch.    *)
C18_LatchReleased ==
    app = "tk" =>
        /\ Idle => ~adjusting
        /\ ~Idle => adjusting
        /\ last_fit.kind # "blocked"

\* between events, after a fit that took the degenerate-viewport return
C18_Witness ==
    /\ app = "tk"
    /\ Idle
    /\ ~adjusting
    /\ last_fit.kind = "deferred"
    /\ after_timers # <<>>
    /\ events >= 2

----------------------------------------------------------------------------
(* Properties of the words of the wrap *)

\* line.split() of every line, concatenated in line order
RECURSIVE words_of_lines(_, _)
words_of_lines(lines, i) ==
    IF i > Len(lines) THEN <<>>
    ELSE words_of(lines[i]) \o words_of_lines(lines, i + 1)

(* C19: wrap neither loses, duplicates nor reorders words: for every text  *)
(* and width, the whitespace-separated words of the returned lines, taken  *)
(* in line order, are exactly the whitespace-separated words of the text   *)
(* in their original order.                                                *)
C19_WordsKept ==
    wrap_called => words_of_lines(wrapped_lines, 1) = words_of(text)

\* one paragraph of three words wrapped into several lines, one of which holds two of them
C19_Witness ==
    /\ wrap_called
    /\ NewlineCount(text) = 0
    /\ Len(words_of(text)) >= 3
    /\ Len(wrapped_lines) >= 2
    /\ \E j \in 1..Len(wrapped_lines) : Len(words_of(wrapped_lines[j])) = 2

----------------------------------------------------------------------------
(* Properties of the applied size *)

(* C20: the size that is applied fits: for a non-empty text and a valid    *)
(* viewport, under a provider whose total wrapped height is non-decreasing *)
(* in the size, if some size in [8,200] has a total height of at most the  *)
(* available height then so has the applied size max(8, best - 2), and     *)
(* the applied size is at most 198.                                        *)
C20_AppliedSizeFits ==
    last_fit.kind = "searched" =>
        LET hs == heights_by_size
        IN  (Monotone(hs) /\ \E i \in 1..Len(hs) : hs[i] <= avail_height) =>
              /\ applied_size = last_fit.target
              /\ applied_size \in MinSize..(MaxSize - 2)
              /\ hs[applied_size - MinSize + 1] <= avail_height

\* the whole range fits and the size applied is the largest one less the margin
C20_Witness ==
    /\ last_fit.kind = "searched"
    /\ last_fit.optimal_size = MaxSize
    /\ applied_size = MaxSize - 2
    /\ Monotone(heights_by_size)
    /\ NewlineCount(text) >= 1

====
